---- MODULE Spec2Model ----
(***************************************************************************)
(* Model of examples/sample.rs: the recursive function fibonacci(n: u32)   *)
(* and the Calculator type with its inherent add(x, y), its Arithmetic     *)
(* implementation add(x) / multiply(x) and its private process().          *)
(*                                                                         *)
(* TLC's integers are 32-bit and TLC stops on overflow, so a u32 and every *)
(* mathematical intermediate is a natural number written as a sequence of  *)
(* base-2^15 digits, least significant first, without leading zeros        *)
(* (zero is <<>>).  An i32 is a TLC integer; its sums and products are     *)
(* computed as sign-and-magnitude numbers over the same digits.            *)
(*                                                                         *)
(* Rust's `+`, `-` and `*` on primitive integers panic on overflow when    *)
(* the build has overflow checks (debug) and wrap modulo 2^32 when it has  *)
(* not (release).  The variable `mode` is the build; both are explored.    *)
(***************************************************************************)
EXTENDS Integers, Sequences, FiniteSets, TLC

\* Largest top-level argument of the runs that execute every call.
MaxN == 9
\* Largest top-level argument of the runs that summarise deep calls.
MaxArg == 50
\* Stack depth from which a summarised run replaces a call by its summary.
MaxDepth == 3

VARIABLES
    mode,        \* "panic" (overflow checks on) or "wrap" (off)
    n0,          \* argument of the top-level call fibonacci(n0)
    stack,       \* pending calls of fibonacci, innermost last
    status,      \* "idle", "running", "returned", "add_overflow", "sub_overflow"
    result,      \* value returned by the top-level call (when status = "returned")
    calls,       \* history: calls of fibonacci entered since the top-level call
    overflowed,  \* history: some addition of this top-level call exceeded u32
    memo,        \* summaries: memo[k + 1] is the outcome of fibonacci(k)
    initial,     \* history: arguments the two calculators were constructed with
    calcs,       \* the two Calculator objects (their `value` fields)
    last         \* the last operation invoked on both calculators, and its outcomes

vars == <<mode, n0, stack, status, result, calls, overflowed, memo, initial, calcs, last>>
fibVars == <<n0, stack, status, result, calls, overflowed, memo>>
calcVars == <<initial, calcs, last>>

Modes == {"panic", "wrap"}

----------------------------------------------------------------------------
(* Natural numbers as base-2^15 digit sequences.                           *)

Base == 2^15

RECURSIVE BigOf(_)
BigOf(k) == IF k = 0 THEN <<>> ELSE <<k % Base>> \o BigOf(k \div Base)

\* Only for a < 2^31.
RECURSIVE BigToInt(_)
BigToInt(a) == IF a = <<>> THEN 0 ELSE Head(a) + Base * BigToInt(Tail(a))

RECURSIVE Norm(_)
Norm(a) ==
    IF a # <<>> /\ a[Len(a)] = 0 THEN Norm(SubSeq(a, 1, Len(a) - 1)) ELSE a

RECURSIVE AddCarry(_, _, _)
AddCarry(a, b, c) ==
    IF a = <<>> /\ b = <<>>
    THEN IF c = 0 THEN <<>> ELSE <<c>>
    ELSE LET x == IF a = <<>> THEN 0 ELSE Head(a)
             y == IF b = <<>> THEN 0 ELSE Head(b)
             s == x + y + c
         IN  <<s % Base>> \o AddCarry(IF a = <<>> THEN a ELSE Tail(a),
                                      IF b = <<>> THEN b ELSE Tail(b),
                                      s \div Base)

BigAdd(a, b) == AddCarry(a, b, 0)

\* a - b for a >= b.
RECURSIVE SubBorrow(_, _, _)
SubBorrow(a, b, c) ==
    IF a = <<>>
    THEN <<>>
    ELSE LET y == IF b = <<>> THEN 0 ELSE Head(b)
             d == Head(a) - y - c
         IN  <<d % Base>> \o SubBorrow(Tail(a),
                                       IF b = <<>> THEN b ELSE Tail(b),
                                       IF d < 0 THEN 1 ELSE 0)

BigSub(a, b) == Norm(SubBorrow(a, b, 0))

RECURSIVE BigLess(_, _)
BigLess(a, b) ==
    IF Len(a) # Len(b) THEN Len(a) < Len(b)
    ELSE IF a = <<>> THEN FALSE
    ELSE IF a[Len(a)] # b[Len(b)] THEN a[Len(a)] < b[Len(b)]
    ELSE BigLess(SubSeq(a, 1, Len(a) - 1), SubSeq(b, 1, Len(b) - 1))

BigLeq(a, b) == ~BigLess(b, a)

\* a * d + c for one digit d.
RECURSIVE Scale(_, _, _)
Scale(a, d, c) ==
    IF a = <<>>
    THEN IF c = 0 THEN <<>> ELSE <<c>>
    ELSE LET p == Head(a) * d + c
         IN  <<p % Base>> \o Scale(Tail(a), d, p \div Base)

RECURSIVE BigMul(_, _)
BigMul(a, b) ==
    IF a = <<>> \/ b = <<>>
    THEN <<>>
    ELSE LET r == BigMul(Tail(a), b)
         IN  BigAdd(Norm(Scale(b, Head(a), 0)), IF r = <<>> THEN r ELSE <<0>> \o r)

One == BigOf(1)
Two == BigOf(2)
Two31 == <<0, 0, 2>>
Two32 == <<0, 0, 4>>

\* The low 32 bits of a.
BigMod32(a) ==
    LET d(i) == IF i <= Len(a) THEN a[i] ELSE 0
    IN  Norm(<<d(1), d(2), d(3) % 4>>)

----------------------------------------------------------------------------
(* u32 arithmetic (sample.rs:1, sample.rs:5).                              *)

U32_MAX == BigSub(Two32, One)

\* a + b on u32: the exact sum exceeds u32::MAX (ovf) and its low 32 bits.
U32Add(a, b) ==
    LET s == BigAdd(a, b)
    IN  [ovf |-> BigLess(U32_MAX, s), val |-> BigMod32(s)]

\* a - b on u32: the exact difference is negative (ovf) and its low 32 bits.
U32Sub(a, b) ==
    IF BigLess(a, b)
    THEN [ovf |-> TRUE, val |-> BigSub(BigAdd(a, Two32), b)]
    ELSE [ovf |-> FALSE, val |-> BigSub(a, b)]

----------------------------------------------------------------------------
(* fibonacci (sample.rs:1-6) as a machine over its call stack.             *)
(* A frame is one call: its argument n, where it stands, and the values of *)
(* the two operands of line 5 once their calls have returned.              *)
(*   "entry"  at line 2                                                    *)
(*   "lwait"  line 5, inside fibonacci(n - 1)                              *)
(*   "right"  line 5, left operand known, about to call fibonacci(n - 2)   *)
(*   "rwait"  line 5, inside fibonacci(n - 2)                              *)
(*   "add"    line 5, both operands known, about to add                    *)

Frame(n) == [n |-> n, pc |-> "entry", a |-> <<>>, b |-> <<>>]

Top == stack[Len(stack)]
Pop == SubSeq(stack, 1, Len(stack) - 1)
SetTop(f) == [stack EXCEPT ![Len(stack)] = f]

\* Faulty variant: the guard written `n < 1`.
IsBase_m(n) == BigLess(n, One)

\* sample.rs:2  `if n <= 1`
IsBase(n) == BigLeq(n, One)

\* Faulty variant: the base case returning 1.
BaseValue_m(n) == One

\* sample.rs:3  `return n`
BaseValue(n) == n

\* Faulty variants: the left call made with n - 2, the right call made with n - 1.
LeftArg_m(n) == U32Sub(n, Two)
RightArg_m(n) == U32Sub(n, One)

\* sample.rs:5  the argument expressions `n - 1` and `n - 2`
LeftArg(n) == U32Sub(n, One)
RightArg(n) == U32Sub(n, Two)

\* Faulty variant: the sum computed in a wider type, which never overflows.
Sum_m(a, b) == [ovf |-> FALSE, val |-> BigAdd(a, b)]

\* sample.rs:5  the `+` of the two returned values
Sum(a, b) == U32Add(a, b)

Panicked == status \in {"add_overflow", "sub_overflow"}

\* A callee returns v to the frame below it (stk is the stack without the callee).
Deliver(stk, v) ==
    IF stk = <<>>
    THEN /\ stack' = <<>>
         /\ status' = "returned"
         /\ result' = v
    ELSE LET f == stk[Len(stk)]
             g == IF f.pc = "lwait"
                  THEN [f EXCEPT !.a = v, !.pc = "right"]
                  ELSE [f EXCEPT !.b = v, !.pc = "add"]
         IN  /\ stack' = [stk EXCEPT ![Len(stk)] = g]
             /\ UNCHANGED <<status, result>>

\* A panic unwinds every pending call.
Panic(msg) ==
    /\ stack' = <<>>
    /\ status' = msg
    /\ UNCHANGED result

\* The call fibonacci(k) made from the top frame of stk.  fibonacci is pure, so
\* a call whose outcome an earlier top-level call has recorded in memo may be
\* replaced by that outcome; this is done only from depth MaxDepth on, and never
\* in a run whose memo is empty.
Call(stk, k) ==
    IF Len(stk) >= MaxDepth /\ BigLess(k, BigOf(Len(memo)))
    THEN LET o == memo[BigToInt(k) + 1]
         IN  /\ calls' = calls
             /\ overflowed' = (overflowed \/ o.ovf)
             /\ IF o.kind = "ok" THEN Deliver(stk, o.val) ELSE Panic(o.kind)
    ELSE /\ stack' = Append(stk, Frame(k))
         /\ calls' = calls + 1
         /\ UNCHANGED <<status, result, overflowed>>

\* sample.rs:2-3
Base_ ==
    /\ status = "running"
    /\ Top.pc = "entry"
    /\ IsBase(Top.n)
    /\ Deliver(Pop, BaseValue(Top.n))
    /\ UNCHANGED <<mode, n0, calls, overflowed, memo, calcVars>>

\* sample.rs:5  `fibonacci(n - 1)`
RecurseLeft ==
    /\ status = "running"
    /\ Top.pc = "entry"
    /\ ~IsBase(Top.n)
    /\ LET d == LeftArg(Top.n)
       IN  IF d.ovf /\ mode = "panic"
           THEN Panic("sub_overflow") /\ UNCHANGED <<calls, overflowed>>
           ELSE Call(SetTop([Top EXCEPT !.pc = "lwait"]), d.val)
    /\ UNCHANGED <<mode, n0, memo, calcVars>>

\* sample.rs:5  `fibonacci(n - 2)`
RecurseRight ==
    /\ status = "running"
    /\ Top.pc = "right"
    /\ LET d == RightArg(Top.n)
       IN  IF d.ovf /\ mode = "panic"
           THEN Panic("sub_overflow") /\ UNCHANGED <<calls, overflowed>>
           ELSE Call(SetTop([Top EXCEPT !.pc = "rwait"]), d.val)
    /\ UNCHANGED <<mode, n0, memo, calcVars>>

\* sample.rs:5  `... + ...` and the return of its value
Add ==
    /\ status = "running"
    /\ Top.pc = "add"
    /\ LET s == Sum(Top.a, Top.b)
       IN  /\ overflowed' = (overflowed \/ s.ovf)
           /\ IF s.ovf /\ mode = "panic"
              THEN Panic("add_overflow")
              ELSE Deliver(Pop, s.val)
    /\ UNCHANGED <<mode, n0, calls, memo, calcVars>>

\* The caller of fibonacci: the outcome of fibonacci(n0) is recorded and the
\* next argument is tried.
Outcome ==
    [kind |-> IF status = "returned" THEN "ok" ELSE status,
     val |-> result,
     ovf |-> overflowed]

Record ==
    /\ status \in {"returned", "add_overflow", "sub_overflow"}
    /\ Len(memo) = n0
    /\ memo' = Append(memo, Outcome)
    /\ IF n0 < MaxArg
       THEN /\ n0' = n0 + 1
            /\ stack' = <<Frame(BigOf(n0 + 1))>>
            /\ status' = "running"
            /\ result' = <<>>
            /\ calls' = 1
            /\ overflowed' = FALSE
       ELSE UNCHANGED <<n0, stack, status, result, calls, overflowed>>
    /\ UNCHANGED <<mode, calcVars>>

CalcIdle ==
    /\ initial = <<0, 0>>
    /\ calcs = <<[value |-> 0], [value |-> 0]>>
    /\ last = [op |-> "none", x |-> 0, y |-> 0, ret |-> <<>>]

\* One top-level call fibonacci(n0), every call executed.
Init ==
    /\ mode \in Modes
    /\ n0 \in 0..MaxN
    /\ stack = <<Frame(BigOf(n0))>>
    /\ status = "running"
    /\ result = <<>>
    /\ calls = 1
    /\ overflowed = FALSE
    /\ memo = <<>>
    /\ CalcIdle

Next == Base_ \/ RecurseLeft \/ RecurseRight \/ Add

Spec == Init /\ [][Next]_vars

\* The program is sequential and runs without suspension points.
FairSpec == Spec /\ WF_vars(Next)

\* The top-level calls fibonacci(0), fibonacci(1), ..., fibonacci(MaxArg) in turn.
InitSum ==
    /\ mode \in Modes
    /\ n0 = 0
    /\ stack = <<Frame(BigOf(0))>>
    /\ status = "running"
    /\ result = <<>>
    /\ calls = 1
    /\ overflowed = FALSE
    /\ memo = <<>>
    /\ CalcIdle

NextSum == Base_ \/ RecurseLeft \/ RecurseRight \/ Add \/ Record

SpecSum == InitSum /\ [][NextSum]_vars

----------------------------------------------------------------------------
(* i32 arithmetic (sample.rs:9, 23, 34, 38).  An i32 is a TLC integer; the *)
(* exact sum or product is a sign-and-magnitude number Z, tested against   *)
(* the i32 range and reduced to its low 32 bits in two's complement.       *)

I32_MAX == 2147483647
I32_MIN == -I32_MAX - 1

ZOf(a) ==
    IF a >= 0
    THEN [neg |-> FALSE, mag |-> BigOf(a)]
    ELSE [neg |-> TRUE, mag |-> BigAdd(BigOf(-(a + 1)), One)]

ZAdd(x, y) ==
    IF x.neg = y.neg
    THEN [neg |-> x.neg, mag |-> BigAdd(x.mag, y.mag)]
    ELSE IF x.mag = y.mag
    THEN [neg |-> FALSE, mag |-> <<>>]
    ELSE IF BigLess(x.mag, y.mag)
    THEN [neg |-> y.neg, mag |-> BigSub(y.mag, x.mag)]
    ELSE [neg |-> x.neg, mag |-> BigSub(x.mag, y.mag)]

ZMul(x, y) ==
    LET m == BigMul(x.mag, y.mag)
    IN  [neg |-> (m # <<>> /\ x.neg # y.neg), mag |-> m]

ZFitsI32(z) == IF z.neg THEN BigLeq(z.mag, Two31) ELSE BigLess(z.mag, Two31)

\* For z in the i32 range.
ZToInt(z) == IF z.neg THEN -BigToInt(BigSub(z.mag, One)) - 1 ELSE BigToInt(z.mag)

\* The i32 whose bits are the low 32 bits of z in two's complement.
ZWrapI32(z) ==
    LET m == BigMod32(z.mag)
        p == IF z.neg /\ m # <<>> THEN BigSub(Two32, m) ELSE m
    IN  IF BigLess(p, Two31)
        THEN BigToInt(p)
        ELSE ZToInt([neg |-> TRUE, mag |-> BigSub(Two32, p)])

\* a + b on i32: the exact sum leaves the i32 range (ovf) and the wrapped value.
I32Add(a, b) ==
    LET z == ZAdd(ZOf(a), ZOf(b))
    IN  [ovf |-> ~ZFitsI32(z), val |-> ZWrapI32(z)]

\* Faulty variant: wrapping_mul, which never reports an overflow.
I32Mul_m(a, b) == [ovf |-> FALSE, val |-> ZWrapI32(ZMul(ZOf(a), ZOf(b)))]

\* a * b on i32: the exact product leaves the i32 range (ovf) and the wrapped value.
I32Mul(a, b) ==
    LET z == ZMul(ZOf(a), ZOf(b))
    IN  [ovf |-> ~ZFitsI32(z), val |-> ZWrapI32(z)]

----------------------------------------------------------------------------
(* Calculator (sample.rs:8-40).  A method takes `&self` and yields the     *)
(* object after the call and the arithmetic it evaluated.                  *)

\* sample.rs:18-20
Calculator_new(init) == [value |-> init]

\* Faulty variant: the inherent add reading the stored value, as the interface add does.
Calculator_add_m(self, x, y) == [self |-> self, ret |-> I32Add(self.value, x)]

\* sample.rs:22-24  the inherent `add(&self, x, y)`
Calculator_add(self, x, y) == [self |-> self, ret |-> I32Add(x, y)]

\* sample.rs:27  `|x| x * 2`
closure(x) == I32Mul(x, 2)

\* Faulty variant: process storing the closure's result in the object.
Calculator_process_m(self) ==
    LET res == closure(5)
    IN  [self |-> [value |-> res.val], ret |-> [ovf |-> res.ovf]]

\* sample.rs:26-29  the local `result` is dropped; the method returns ()
Calculator_process(self) ==
    LET res == closure(5)
    IN  [self |-> self, ret |-> [ovf |-> res.ovf]]

\* Faulty variant: add with the body of multiply.
Arithmetic_add_m(self, x) == [self |-> self, ret |-> I32Mul(self.value, x)]

\* sample.rs:33-35  `Arithmetic::add(&self, x)`
Arithmetic_add(self, x) == [self |-> self, ret |-> I32Add(self.value, x)]

\* Faulty variant: multiply with the body of add.
Arithmetic_multiply_m(self, x) == [self |-> self, ret |-> I32Add(self.value, x)]

\* sample.rs:37-39  `Arithmetic::multiply(&self, x)`
Arithmetic_multiply(self, x) == [self |-> self, ret |-> I32Mul(self.value, x)]

\* What the caller of an arithmetic method observes under the build `mode`.
Returned(r) ==
    IF r.ovf /\ mode = "panic"
    THEN [kind |-> "panic", ovf |-> TRUE]
    ELSE [kind |-> "ok", val |-> r.val, ovf |-> r.ovf]

\* What the caller of process observes: () unless the multiplication panicked.
ReturnedUnit(r) ==
    IF r.ovf /\ mode = "panic"
    THEN [kind |-> "panic", ovf |-> TRUE]
    ELSE [kind |-> "unit", ovf |-> r.ovf]

\* Arguments tried: the values of the documented examples and the edges of i32.
I32Samples ==
    {I32_MIN, -46341, -1, 0, 1, 3, 4, 5, 7, 46340, 46341, I32_MAX}

FibIdle ==
    /\ n0 = 0
    /\ stack = <<>>
    /\ status = "idle"
    /\ result = <<>>
    /\ calls = 0
    /\ overflowed = FALSE
    /\ memo = <<>>

\* Two calculators are constructed; every operation is then invoked on both
\* with the same arguments.
InitCalc ==
    /\ mode \in Modes
    /\ initial \in I32Samples \X I32Samples
    /\ calcs = <<Calculator_new(initial[1]), Calculator_new(initial[2])>>
    /\ last = [op |-> "new", x |-> 0, y |-> 0, ret |-> <<>>]
    /\ FibIdle

CallInherentAdd ==
    /\ last.op \in {"new", "none"}
    /\ \E x \in I32Samples, y \in I32Samples :
        LET r1 == Calculator_add(calcs[1], x, y)
            r2 == Calculator_add(calcs[2], x, y)
        IN  /\ calcs' = <<r1.self, r2.self>>
            /\ last' = [op |-> "Calculator::add", x |-> x, y |-> y,
                        ret |-> <<Returned(r1.ret), Returned(r2.ret)>>]
            /\ UNCHANGED <<mode, initial, fibVars>>

CallArithmeticAdd ==
    /\ last.op \in {"new", "none"}
    /\ \E x \in I32Samples :
        LET r1 == Arithmetic_add(calcs[1], x)
            r2 == Arithmetic_add(calcs[2], x)
        IN  /\ calcs' = <<r1.self, r2.self>>
            /\ last' = [op |-> "Arithmetic::add", x |-> x, y |-> 0,
                        ret |-> <<Returned(r1.ret), Returned(r2.ret)>>]
            /\ UNCHANGED <<mode, initial, fibVars>>

CallArithmeticMultiply ==
    /\ last.op \in {"new", "none"}
    /\ \E x \in I32Samples :
        LET r1 == Arithmetic_multiply(calcs[1], x)
            r2 == Arithmetic_multiply(calcs[2], x)
        IN  /\ calcs' = <<r1.self, r2.self>>
            /\ last' = [op |-> "Arithmetic::multiply", x |-> x, y |-> 0,
                        ret |-> <<Returned(r1.ret), Returned(r2.ret)>>]
            /\ UNCHANGED <<mode, initial, fibVars>>

CallProcess ==
    /\ last.op \in {"new", "none"}
    /\ LET r1 == Calculator_process(calcs[1])
           r2 == Calculator_process(calcs[2])
       IN  /\ calcs' = <<r1.self, r2.self>>
           /\ last' = [op |-> "process", x |-> 0, y |-> 0,
                       ret |-> <<ReturnedUnit(r1.ret), ReturnedUnit(r2.ret)>>]
           /\ UNCHANGED <<mode, initial, fibVars>>

\* The caller drops what the last call returned and is ready for the next call.
Drop ==
    /\ last.op \notin {"new", "none"}
    /\ last' = [op |-> "none", x |-> 0, y |-> 0, ret |-> <<>>]
    /\ UNCHANGED <<mode, initial, calcs, fibVars>>

NextCalc ==
    \/ CallInherentAdd
    \/ CallArithmeticAdd
    \/ CallArithmeticMultiply
    \/ CallProcess
    \/ Drop

SpecCalc == InitCalc /\ [][NextCalc]_vars

----------------------------------------------------------------------------
(* Reference definitions the properties are stated against.                *)

\* F(0) = 0, F(1) = 1, F(k) = F(k-1) + F(k-2), as an unbounded natural.
RECURSIVE FibIter(_, _, _)
FibIter(k, a, b) == IF k = 0 THEN a ELSE FibIter(k - 1, b, BigAdd(a, b))
FibRef(n) == FibIter(n, <<>>, One)

\* C(0) = C(1) = 1, C(n) = 1 + C(n-1) + C(n-2).
RECURSIVE CallsIter(_, _, _)
CallsIter(k, a, b) == IF k = 0 THEN a ELSE CallsIter(k - 1, b, 1 + a + b)
CallsRef(n) == CallsIter(n, 1, 1)

\* Steps fibonacci(n) takes from its entry: S(0) = S(1) = 1, S(n) = 3 + S(n-1) + S(n-2).
RECURSIVE StepsIter(_, _, _)
StepsIter(k, a, b) == IF k = 0 THEN a ELSE StepsIter(k - 1, b, 3 + a + b)
StepsRef(n) == StepsIter(n, 1, 1)

\* Steps still owed by a pending call, not counting the calls above it.
Owed(f) ==
    LET n == BigToInt(f.n)
    IN  CASE f.pc = "entry" -> StepsRef(n)
          [] f.pc \in {"lwait", "right"} -> StepsRef(n - 2) + 2
          [] OTHER -> 1

RECURSIVE OwedFrom(_)
OwedFrom(i) == IF i > Len(stack) THEN 0 ELSE Owed(stack[i]) + OwedFrom(i + 1)
Measure == OwedFrom(1)

\* fibonacci(k) as recorded by the caller.
Fib(k) == memo[k + 1]
Recorded == 0..(Len(memo) - 1)

\* The exact sum a + b is an i32.
AddFits(a, b) ==
    LET h == (a \div 2) + (b \div 2) + (((a % 2) + (b % 2)) \div 2)
    IN  h >= -1073741824 /\ h <= 1073741823

\* The i32 congruent to a + b modulo 2^32, for a sum that is not an i32.
WrapSum(a, b) ==
    IF a > 0
    THEN ((a - I32_MAX) + (b - 1)) + I32_MIN
    ELSE ((a - I32_MIN) + (b + 1)) + I32_MAX

Abs(a) == IF a < 0 THEN -a ELSE a

\* The exact product a * b is an i32.
MulFits(a, b) ==
    IF a = 0 \/ b = 0 THEN TRUE
    ELSE IF a = I32_MIN \/ b = I32_MIN THEN a = 1 \/ b = 1
    ELSE LET p == Abs(a)
             q == Abs(b)
         IN  IF (a < 0) = (b < 0)
             THEN p <= I32_MAX \div q
             ELSE q = 1 \/ p <= (I32_MAX \div q) + (IF I32_MAX % q = q - 1 THEN 1 ELSE 0)

Ok(v) == [kind |-> "ok", val |-> v, ovf |-> FALSE]

----------------------------------------------------------------------------
(* Properties.                                                             *)

\* C1: for every n in 0..47, fibonacci(n) returns F(n) of the reference
\* sequence; in particular fibonacci(0) = 0, fibonacci(1) = 1, fibonacci(2) = 1
\* and fibonacci(10) = 55.
C1_FibonacciIsReference ==
    /\ \A k \in Recorded :
          k <= 47 => Fib(k).kind = "ok" /\ Fib(k).val = FibRef(k)
    /\ status = "returned" /\ n0 <= 47 => result = FibRef(n0)
    /\ Len(memo) > 0 => Fib(0).val = BigOf(0)
    /\ Len(memo) > 1 => Fib(1).val = BigOf(1)
    /\ Len(memo) > 2 => Fib(2).val = BigOf(1)
    /\ Len(memo) > 10 => Fib(10).val = BigOf(55)

C1_Witness == Len(memo) > 47 /\ Fib(47).kind = "ok" /\ Fib(10).val = BigOf(55)

\* C2 as stated: for all n >= 2 (no upper bound) the returned values satisfy
\* fibonacci(n) = fibonacci(n-1) + fibonacci(n-2).
C2_Original ==
    \A n \in Recorded :
        n >= 2 => /\ Fib(n).kind = "ok"
                  /\ Fib(n - 1).kind = "ok"
                  /\ Fib(n - 2).kind = "ok"
                  /\ Fib(n).val = BigAdd(Fib(n - 1).val, Fib(n - 2).val)

\* C2 amended: for 2 <= n <= 47 the returned values satisfy fibonacci(n) =
\* fibonacci(n-1) + fibonacci(n-2); for n >= 48 a build without overflow checks
\* returns the low 32 bits of fibonacci(n-1) + fibonacci(n-2), and a build
\* with overflow checks returns nothing (the call panics on the addition).
C2_RecurrenceUpTo47 ==
    \A n \in Recorded :
        /\ (n >= 2 /\ n <= 47) =>
              /\ Fib(n).kind = "ok"
              /\ Fib(n - 1).kind = "ok"
              /\ Fib(n - 2).kind = "ok"
              /\ Fib(n).val = BigAdd(Fib(n - 1).val, Fib(n - 2).val)
        /\ (n >= 48 /\ mode = "wrap") =>
              /\ Fib(n).kind = "ok"
              /\ Fib(n).val = BigMod32(BigAdd(Fib(n - 1).val, Fib(n - 2).val))
        /\ (n >= 48 /\ mode = "panic") => Fib(n).kind = "add_overflow"

C2_Witness == Len(memo) > 49 /\ mode = "wrap" /\ Fib(49).kind = "ok"

\* C3: for a Calculator constructed by new(v), Arithmetic::add(x) returns
\* v + x whenever v + x is an i32; new(5).add(3) = 8 and new(0).add(x) = x.
C3_ArithmeticAdd ==
    last.op = "Arithmetic::add" =>
        \A i \in 1..2 :
            /\ AddFits(initial[i], last.x) => last.ret[i] = Ok(initial[i] + last.x)
            /\ initial[i] = 0 => last.ret[i] = Ok(last.x)
            /\ (initial[i] = 5 /\ last.x = 3) => last.ret[i] = Ok(8)

C3_Witness ==
    /\ last.op = "Arithmetic::add"
    /\ initial[1] = 5 /\ last.x = 3 /\ last.ret[1] = Ok(8)
    /\ initial[2] = 0 /\ last.ret[2] = Ok(3)

\* C4: for a Calculator constructed by new(v), Arithmetic::multiply(x) returns
\* v * x whenever v * x is an i32; new(5).multiply(3) = 15 and
\* new(0).multiply(x) = 0.
C4_ArithmeticMultiply ==
    last.op = "Arithmetic::multiply" =>
        \A i \in 1..2 :
            /\ MulFits(initial[i], last.x) => last.ret[i] = Ok(initial[i] * last.x)
            /\ initial[i] = 0 => last.ret[i] = Ok(0)
            /\ (initial[i] = 5 /\ last.x = 3) => last.ret[i] = Ok(15)

C4_Witness ==
    /\ last.op = "Arithmetic::multiply"
    /\ initial[1] = 5 /\ last.x = 3 /\ last.ret[1] = Ok(15)
    /\ initial[2] = 0 /\ last.ret[2] = Ok(0)

\* C5: the inherent Calculator::add(x, y) gives the same outcome on any two
\* calculators new(v1), new(v2), namely x + y as i32 addition evaluates it (the
\* exact sum whenever that is an i32, new(5).add(3, 4) = 7; else the sum
\* modulo 2^32 or a panic); the interface add(x) is another operation, which
\* returns value + x.
C5_InherentAddIgnoresValue ==
    /\ last.op = "Calculator::add" =>
          /\ last.ret[1] = last.ret[2]
          /\ AddFits(last.x, last.y) => last.ret[1] = Ok(last.x + last.y)
          /\ (~AddFits(last.x, last.y) /\ mode = "wrap") =>
                last.ret[1] = [kind |-> "ok", val |-> WrapSum(last.x, last.y), ovf |-> TRUE]
          /\ (last.x = 3 /\ last.y = 4) => last.ret[1] = Ok(7)
    /\ last.op = "Arithmetic::add" =>
          \A i \in 1..2 :
              AddFits(calcs[i].value, last.x) => last.ret[i] = Ok(calcs[i].value + last.x)

C5_Witness ==
    /\ last.op = "Calculator::add"
    /\ initial = <<5, I32_MAX>>
    /\ last.x = 3 /\ last.y = 4
    /\ last.ret = <<Ok(7), Ok(7)>>

\* C6: after new(initial), in every state reached by any sequence of the
\* inherent add, the interface add, the interface multiply and process, value
\* still equals initial; process returns nothing.
C6_ValueIsFixed ==
    /\ \A i \in 1..2 : calcs[i] = [value |-> initial[i]]
    /\ last.op = "process" =>
          \A i \in 1..2 : last.ret[i] = [kind |-> "unit", ovf |-> FALSE]

C6_Witness ==
    /\ last.op = "process"
    /\ initial = <<5, -1>>
    /\ calcs = <<[value |-> 5], [value |-> -1]>>

\* C7 as stated: no operation of the calculator has an error path: the
\* inherent add, the interface add and the interface multiply never overflow,
\* wrap or panic, for every stored value and every i32 argument.
C7_Original ==
    last.op \in {"Calculator::add", "Arithmetic::add", "Arithmetic::multiply"} =>
        \A i \in 1..2 : last.ret[i].kind = "ok" /\ ~last.ret[i].ovf

\* The exact result of the last operation on calculator i is an i32.
LastFits(i) ==
    CASE last.op = "Calculator::add" -> AddFits(last.x, last.y)
      [] last.op = "Arithmetic::add" -> AddFits(initial[i], last.x)
      [] last.op = "Arithmetic::multiply" -> MulFits(initial[i], last.x)
      [] OTHER -> TRUE

\* C7 amended: arithmetic overflow is a latent failure mode of fibonacci on
\* large inputs and of the three arithmetic operations of the calculator: the
\* inherent add, the interface add and the interface multiply overflow exactly
\* when the exact sum or product is not an i32, and then panic (overflow checks
\* on) or return a wrapped value (overflow checks off); process never overflows.
C7_OverflowExactlyWhenOutOfRange ==
    last.op \in {"Calculator::add", "Arithmetic::add", "Arithmetic::multiply", "process"} =>
        \A i \in 1..2 :
            /\ last.ret[i].ovf <=> ~LastFits(i)
            /\ last.ret[i].kind = "panic" <=> (~LastFits(i) /\ mode = "panic")
            /\ (last.op = "Arithmetic::add" /\ last.ret[i].ovf /\ mode = "wrap") =>
                  last.ret[i].val = WrapSum(initial[i], last.x)

C7_Witness ==
    /\ last.op = "Arithmetic::multiply"
    /\ initial[1] = 46341 /\ last.x = 46341
    /\ last.ret[1].ovf
    /\ initial[2] = 46340 /\ ~last.ret[2].ovf

\* C8: in every call reachable from fibonacci(n), n - 1 and n - 2 are
\* evaluated only when n >= 2: no subtraction goes below zero and every
\* recursive call receives the exact n - 1 or n - 2.
C8_NoUnderflow ==
    /\ status # "sub_overflow"
    /\ \A i \in 1..Len(stack) :
          /\ stack[i].pc # "entry" => BigLeq(Two, stack[i].n)
          /\ (i > 1 /\ stack[i - 1].pc = "lwait") =>
                BigAdd(stack[i].n, One) = stack[i - 1].n
          /\ (i > 1 /\ stack[i - 1].pc = "rwait") =>
                BigAdd(stack[i].n, Two) = stack[i - 1].n

C8_Witness ==
    /\ Len(stack) > 1
    /\ stack[Len(stack) - 1].n = Two
    /\ stack[Len(stack) - 1].pc = "rwait"
    /\ Top.n = <<>>

\* C9: for every n <= 47 no addition performed during fibonacci(n) exceeds
\* 2^32 - 1 and the result is exact; for every n >= 48 some addition exceeds
\* 2^32 - 1, and the call panics or returns F(n) modulo 2^32, which is not F(n).
C9_OverflowFrom48 ==
    /\ n0 <= 47 => ~overflowed /\ ~Panicked
    /\ \A k \in Recorded :
          /\ k <= 47 => ~Fib(k).ovf /\ Fib(k) = Ok(FibRef(k))
          /\ k >= 48 =>
                /\ Fib(k).ovf
                /\ Fib(k).kind = (IF mode = "panic" THEN "add_overflow" ELSE "ok")
                /\ Fib(k).kind = "ok" =>
                      /\ Fib(k).val = BigMod32(FibRef(k))
                      /\ Fib(k).val # FibRef(k)

C9_Witness ==
    /\ Len(memo) > 48
    /\ Fib(47) = Ok(FibRef(47))
    /\ Fib(48).ovf
    /\ Fib(48).kind = "add_overflow"

\* C10, the safety part: a call with n <= 1 returns without recursing; a call
\* with n >= 2 calls with the smaller arguments n - 1 and n - 2; the stack
\* holds at most n0 frames below the top-level call; a run that returned
\* entered exactly C(n0) calls.
C10_Shape ==
    /\ Len(stack) - 1 <= n0
    /\ \A i \in 2..Len(stack) :
          /\ BigLess(stack[i].n, stack[i - 1].n)
          /\ stack[i].n \in {BigSub(stack[i - 1].n, One), BigSub(stack[i - 1].n, Two)}
    /\ \A i \in 1..Len(stack) : stack[i].pc # "entry" => BigLeq(Two, stack[i].n)
    /\ status = "returned" => calls = CallsRef(n0) /\ stack = <<>>

\* C10, the step: every step uses up one of the steps the pending calls owe,
\* and a call with n <= 1 is popped by its first step.
C10_Step ==
    /\ Measure' = Measure - 1
    /\ (status = "running" /\ Top.pc = "entry" /\ BigLeq(Top.n, One)) =>
          Len(stack') = Len(stack) - 1

====
